---- MODULE Spec2Model ----
(***************************************************************************)
(* Model of the PDF document registry entity defined in                    *)
(* backend/src/models/pdfs.model.js: the mongoose schema (field defaults   *)
(* and validators), the pre-save hook, the access resolution methods       *)
(* getUserPermission / hasAccess and the sharing methods shareWith /       *)
(* removeSharing.                                                          *)
(*                                                                         *)
(* One document is modelled.  `doc` is the in-memory mongoose document,    *)
(* `stored` is the state written by the last successful save, `modified`   *)
(* is mongoose's set of paths assigned since that save.  uploaded_by is    *)
(* held as an ObjectId (not populated).                                    *)
(***************************************************************************)
EXTENDS Integers, Sequences, FiniteSets

\* ---------------------------------------------------------------- bounds
NumUsers == 3     \* ObjectIds 1..NumUsers
MaxShares == 2    \* longest shared_with array explored
MaxChunks == 1    \* largest chunk count a caller writes
MaxClock == 3     \* latest instant new Date() returns
InitShares == 1   \* longest shared_with array a document is created with

VARIABLES doc, stored, modified, clock, last

vars == <<doc, stored, modified, clock, last>>

\* ------------------------------------------------------------ value space
Users == 1..NumUsers

\* An absent ObjectId / Date (JavaScript undefined).
Undefined == 0

\* ObjectId.prototype.toString(): the hexadecimal form of the id.
HexOf == <<"a1", "a2", "a3", "a4", "a5", "a6">>

toString(id) == HexOf[id]

\* enum of indexing_status
StatusEnum == {"pending", "processing", "completed", "failed"}

\* enum of shared_with[].permission
PermissionEnum == {"read", "write"}

\* The paths the shared_with sub-schema declares.
SubPaths == {"user", "permission"}

\* Default of a sub-schema path that the assigned object does not carry.
SubDefault(f) == IF f = "permission" THEN "read" ELSE Undefined

\* Casting a plain object to a shared_with subdocument (strict schema):
\* declared paths are copied or defaulted, undeclared keys are dropped.
CastShare(raw) ==
  [f \in SubPaths |-> IF f \in DOMAIN raw THEN raw[f] ELSE SubDefault(f)]

\* Reading an ObjectId-valued property of a subdocument: a property the
\* subdocument does not have reads as undefined.
IdField(share, f) == IF f \in DOMAIN share THEN share[f] ELSE Undefined

\* Assigning a property of a subdocument: only declared paths are kept.
SetSubField(share, f, v) ==
  IF f \in SubPaths THEN [share EXCEPT ![f] = v] ELSE share

\* Schema-conformant grants a document can be created with.
SchemaShares == [user : Users, permission : PermissionEnum]

RECURSIVE SeqsUpTo(_, _)
SeqsUpTo(S, n) ==
  IF n = 0 THEN {<<>>}
  ELSE LET shorter == SeqsUpTo(S, n - 1)
       IN shorter \cup {Append(s, x) : s \in {t \in shorter : Len(t) = n - 1}, x \in S}

\* -------------------------------------------------------------- the schema
\* A document as PDFSModel creates it: schema defaults for the processing
\* and chunk fields; owner, visibility and grants supplied by the creator.
NewDocument(owner, public, shares) ==
  [uploaded_by |-> owner,
   is_public |-> public,
   is_indexed |-> FALSE,
   indexing_status |-> "pending",
   indexed_at |-> Undefined,
   total_chunks |-> 0,
   successful_chunks |-> 0,
   shared_with |-> shares]

\* Schema validators run by save().
Validates(d) ==
  /\ d.total_chunks >= 0
  /\ d.successful_chunks >= 0
  /\ d.indexing_status \in StatusEnum
  /\ \A i \in 1..Len(d.shared_with) : d.shared_with[i].permission \in PermissionEnum

Init ==
  /\ \E owner \in Users, public \in BOOLEAN :
       \E shares \in SeqsUpTo(SchemaShares, InitShares) :
         /\ \A i \in 1..Len(shares) : shares[i].user # owner
         /\ \A i, j \in 1..Len(shares) : shares[i].user = shares[j].user => i = j
         /\ doc = NewDocument(owner, public, shares)
  /\ stored = doc
  /\ modified = {}
  /\ clock = 1
  /\ last = [op |-> "create", user |-> Undefined, permission |-> "read", outcome |-> "saved"]

\* ------------------------------------------------------- access resolution
\* Array.prototype.findIndex with the predicate used by getUserPermission,
\* shareWith and removeSharing:
\*   share => share.user_id && share.user_id.toString() === userId.toString()
\* Returns the 1-based index of the first match, 0 when there is none.
MatchesUserId(share, userId) ==
  /\ IdField(share, "user_id") # Undefined
  /\ toString(IdField(share, "user_id")) = toString(userId)

findIndex(shares, userId) ==
  IF \E i \in 1..Len(shares) : MatchesUserId(shares[i], userId)
  THEN CHOOSE i \in 1..Len(shares) :
         /\ MatchesUserId(shares[i], userId)
         /\ \A j \in 1..(i - 1) : ~MatchesUserId(shares[j], userId)
  ELSE 0

getUserPermission(d, userId) ==
  IF toString(userId) = toString(d.uploaded_by) THEN "owner"
  ELSE IF d.is_public THEN "read"
  ELSE IF Len(d.shared_with) > 0 /\ findIndex(d.shared_with, userId) # 0
       THEN d.shared_with[findIndex(d.shared_with, userId)].permission
  ELSE "none"

hasAccess(d, userId) == getUserPermission(d, userId) # "none"

\* The static findByUser: whether the stored document d matches the query
\*   $or: [{uploaded_by: userId}, {is_public: true}, {'shared_with.user': userId}]
\* and so is among the documents returned for userId.
findByUser(d, userId) ==
  \/ d.uploaded_by = userId
  \/ d.is_public = TRUE
  \/ \E i \in 1..Len(d.shared_with) : IdField(d.shared_with[i], "user") = userId

\* ------------------------------------------------------------------- save
\* The pre-save hook without the test that indexed_at is absent.
PreSaveNoGuard(d, mod) ==
  IF "is_indexed" \in mod /\ d.is_indexed
  THEN [d EXCEPT !.indexed_at = clock, !.indexing_status = "completed"]
  ELSE d

\* The pre-save hook: stamps indexed_at and completes the status when
\* is_indexed was modified to true and no indexed_at is present.
PreSave(d, mod) ==
  IF "is_indexed" \in mod /\ d.is_indexed /\ d.indexed_at = Undefined
  THEN [d EXCEPT !.indexed_at = clock, !.indexing_status = "completed"]
  ELSE d

\* Document.prototype.save() on document d: validation, then the pre-save
\* hook, then the write.  A validation failure rejects and writes nothing.
SaveOf(d, mod, op, userId, permission) ==
  IF Validates(d)
  THEN /\ doc' = PreSave(d, mod)
       /\ stored' = PreSave(d, mod)
       /\ modified' = {}
       /\ last' = [op |-> op, user |-> userId, permission |-> permission, outcome |-> "saved"]
  ELSE /\ doc' = d
       /\ stored' = stored
       /\ modified' = mod
       /\ last' = [op |-> op, user |-> userId, permission |-> permission, outcome |-> "rejected"]

Save ==
  /\ SaveOf(doc, modified, "save", Undefined, "read")
  /\ UNCHANGED clock

\* A synchronous throw: nothing is assigned and save() is not called.
Throw(op, userId, permission) ==
  /\ last' = [op |-> op, user |-> userId, permission |-> permission, outcome |-> "threw"]
  /\ UNCHANGED <<doc, stored, modified, clock>>

\* ---------------------------------------------------------------- sharing
\* The array shareWith leaves in memory: the matching grant updated in
\* place, or a new grant pushed (and cast to a subdocument).
SharedWithAfterShare(shares, userId, permission) ==
  LET existingShareIndex == findIndex(shares, userId)
  IN IF existingShareIndex > 0
     THEN [shares EXCEPT ![existingShareIndex] =
             SetSubField(SetSubField(@, "permission", permission), "shared_at", clock)]
     ELSE Append(shares, CastShare([user_id |-> userId,
                                    permission |-> permission,
                                    shared_at |-> clock]))

\* shareWith with the owner check left out.
shareWithNoOwnerCheck(userId, permission) ==
  /\ Len(SharedWithAfterShare(doc.shared_with, userId, permission)) <= MaxShares
  /\ SaveOf([doc EXCEPT !.shared_with = SharedWithAfterShare(@, userId, permission)],
            modified \cup {"shared_with"}, "shareWith", userId, permission)
  /\ UNCHANGED clock

shareWith(userId, permission) ==
  IF toString(doc.uploaded_by) = toString(userId)
  THEN Throw("shareWith", userId, permission)
  ELSE /\ Len(SharedWithAfterShare(doc.shared_with, userId, permission)) <= MaxShares
       /\ SaveOf([doc EXCEPT !.shared_with = SharedWithAfterShare(@, userId, permission)],
                 modified \cup {"shared_with"}, "shareWith", userId, permission)
       /\ UNCHANGED clock

\* Array.prototype.splice(index, 1) with a 1-based index; a JavaScript index
\* of -1 (no match, 0 here) counts from the end and removes the last element.
splice(shares, index) ==
  LET at == IF index = 0 THEN Len(shares) ELSE index
  IN [i \in 1..(Len(shares) - 1) |-> IF i < at THEN shares[i] ELSE shares[i + 1]]

\* removeSharing with the "not shared with this user" check left out.
removeSharingNoNotFoundCheck(userId) ==
  IF Len(doc.shared_with) = 0
  THEN Throw("removeSharing", userId, "read")
  ELSE /\ SaveOf([doc EXCEPT !.shared_with = splice(@, findIndex(@, userId))],
                 modified \cup {"shared_with"}, "removeSharing", userId, "read")
       /\ UNCHANGED clock

removeSharing(userId) ==
  IF Len(doc.shared_with) = 0
  THEN Throw("removeSharing", userId, "read")
  ELSE IF findIndex(doc.shared_with, userId) = 0
  THEN Throw("removeSharing", userId, "read")
  ELSE /\ SaveOf([doc EXCEPT !.shared_with = splice(@, findIndex(@, userId))],
                 modified \cup {"shared_with"}, "removeSharing", userId, "read")
       /\ UNCHANGED clock

\* ------------------------------------------------- field writes by callers
\* doc.path = value; mongoose marks the path modified when the value changes.
SetField(path, value) ==
  /\ doc[path] # value
  /\ doc' = [doc EXCEPT ![path] = value]
  /\ modified' = modified \cup {path}
  /\ last' = [op |-> "set", user |-> Undefined, permission |-> "read", outcome |-> "assigned"]
  /\ UNCHANGED <<stored, clock>>

SetIsPublic == \E b \in BOOLEAN : SetField("is_public", b)

SetIsIndexed == \E b \in BOOLEAN : SetField("is_indexed", b)

SetIndexingStatus == \E s \in StatusEnum : SetField("indexing_status", s)

SetTotalChunks == \E n \in -1..MaxChunks : SetField("total_chunks", n)

SetSuccessfulChunks == \E n \in -1..MaxChunks : SetField("successful_chunks", n)

\* Time passes between calls of new Date().
Tick ==
  /\ clock < MaxClock
  /\ clock' = clock + 1
  /\ UNCHANGED <<doc, stored, modified, last>>

ShareWith == \E u \in Users, p \in PermissionEnum : shareWith(u, p)

RemoveSharing == \E u \in Users : removeSharing(u)

\* Sharing and visibility operations.
Next ==
  \/ ShareWith
  \/ RemoveSharing
  \/ SetIsPublic
  \/ Save

Spec == Init /\ [][Next]_vars

\* The indexing lifecycle: flag and status writes, saves and the passage of
\* time.
NextIndex ==
  \/ SetIsIndexed
  \/ SetIndexingStatus
  \/ Save
  \/ Tick

SpecIndex == Init /\ [][NextIndex]_vars

\* Every operation that saves the document while is_indexed is toggled:
\* direct saves and the saves of the sharing methods, as time passes.
NextStamp ==
  \/ SetIsIndexed
  \/ ShareWith
  \/ RemoveSharing
  \/ Save
  \/ Tick

SpecStamp == Init /\ [][NextStamp]_vars

\* Chunk accounting: counter writes and saves.
NextChunks ==
  \/ SetTotalChunks
  \/ SetSuccessfulChunks
  \/ Save

SpecChunks == Init /\ [][NextChunks]_vars

\* ================================================================= claims
\* The grants of document d that name user u in the schema's grant field.
GrantsOf(d, u) == {i \in 1..Len(d.shared_with) : d.shared_with[i].user = u}

\* A step that is a call of the given sharing method (a repeated call that
\* throws again leaves every variable as it was).
CallStep(op) ==
  /\ last'.op = op
  /\ <<doc, stored, modified, last>>' # <<doc, stored, modified, last>>

\* The ordered resolution list: owner, public, the user's grant, none.
ResolveByList(d, u) ==
  IF u = d.uploaded_by THEN "owner"
  ELSE IF d.is_public THEN "read"
  ELSE IF GrantsOf(d, u) # {}
       THEN d.shared_with[CHOOSE i \in GrantsOf(d, u) : \A j \in GrantsOf(d, u) : i <= j].permission
  ELSE "none"

\* C1: for every user, getUserPermission returns the first match of
\* owner / public read / the permission of the user's grant / none, and
\* hasAccess is true exactly when that result is not none.
C1_ResolutionOrder ==
  \A u \in Users :
    /\ getUserPermission(doc, u) = ResolveByList(doc, u)
    /\ hasAccess(doc, u) <=> (ResolveByList(doc, u) # "none")

\* C2: shareWith for a user who was just granted access updates that grant
\* in place: the array does not grow, and the user is left with exactly one
\* grant, carrying the permission of the latest call.
C2_ReshareUpdatesInPlace ==
  [][(/\ CallStep("shareWith")
      /\ last'.outcome = "saved"
      /\ last.op = "shareWith"
      /\ last.outcome = "saved"
      /\ last.user = last'.user)
     => (/\ Len(doc'.shared_with) = Len(doc.shared_with)
         /\ Cardinality(GrantsOf(doc', last'.user)) = 1
         /\ \A i \in GrantsOf(doc', last'.user) :
              doc'.shared_with[i].permission = last'.permission)]_vars

\* C3: once shareWith(U, p) has completed on a document that is not public,
\* getUserPermission(U) is p and hasAccess(U) is true.
C3_GrantGivesAccess ==
  (last.op = "shareWith" /\ last.outcome = "saved" /\ ~stored.is_public)
    => (/\ getUserPermission(stored, last.user) = last.permission
        /\ hasAccess(stored, last.user))

\* C4: shareWith called with the document's owner throws before any change:
\* the document in memory and the stored document are untouched and no save
\* is issued.
C4_OwnerShareRejected ==
  [][(CallStep("shareWith") /\ last'.user = doc.uploaded_by)
     => (/\ last'.outcome = "threw"
         /\ doc' = doc
         /\ stored' = stored
         /\ modified' = modified)]_vars

\* C4 witness: the owner call was rejected, with permission write, on a
\* document that already holds a grant.
C4_Witness ==
  /\ last.op = "shareWith"
  /\ last.user = doc.uploaded_by
  /\ last.permission = "write"
  /\ last.outcome = "threw"
  /\ Len(doc.shared_with) > 0

\* C5: removeSharing for a user no grant names throws, whether shared_with
\* is empty or holds other users' grants, and leaves shared_with (length and
\* contents) untouched without issuing a save.
C5_RemoveAbsentRejected ==
  [][(CallStep("removeSharing") /\ GrantsOf(doc, last'.user) = {})
     => (/\ last'.outcome = "threw"
         /\ doc' = doc
         /\ stored' = stored
         /\ modified' = modified)]_vars

\* C5 witness: the call was rejected on a document whose shared_with holds a
\* grant for another user only.
C5_Witness ==
  /\ last.op = "removeSharing"
  /\ last.outcome = "threw"
  /\ GrantsOf(doc, last.user) = {}
  /\ \E u \in Users : u # last.user /\ GrantsOf(doc, u) # {}

\* C6: removeSharing(U) right after a successful shareWith(U, p) succeeds
\* and removes exactly one grant, leaving the other grants and their order
\* as they were; afterwards, if the document is not public, U resolves to none.
C6_RemoveAfterShare ==
  [][(/\ CallStep("removeSharing")
      /\ last.op = "shareWith"
      /\ last.outcome = "saved"
      /\ last'.user = last.user)
     => (/\ last'.outcome = "saved"
         /\ Len(doc'.shared_with) = Len(doc.shared_with) - 1
         /\ \E k \in 1..Len(doc.shared_with) : doc'.shared_with = splice(doc.shared_with, k)
         /\ ~doc'.is_public => getUserPermission(doc', last'.user) = "none")]_vars

\* C7: in every saved state, indexing_status = completed implies that
\* is_indexed is true and indexed_at is set.
C7_CompletedImpliesIndexed ==
  stored.indexing_status = "completed"
    => (stored.is_indexed /\ stored.indexed_at # Undefined)

\* C8: a save that changes the stored is_indexed to true leaves the stored
\* document completed with indexed_at set, whatever it held before.
C8_IndexedFlipCompletes ==
  [][(~stored.is_indexed /\ stored'.is_indexed)
     => (stored'.indexing_status = "completed" /\ stored'.indexed_at # Undefined)]_vars

\* C9: once the stored document has indexed_at set, no later save clears it
\* or changes its value.
C9_IndexedAtSetOnce ==
  [][stored.indexed_at # Undefined => stored'.indexed_at = stored.indexed_at]_vars

\* C9 witness: a save made by a sharing call at a later instant than
\* indexed_at, of a document whose is_indexed was reset to false after the
\* stamp.
C9_Witness ==
  /\ stored.indexed_at # Undefined
  /\ stored.indexed_at < clock
  /\ ~stored.is_indexed
  /\ last.op = "shareWith"
  /\ last.outcome = "saved"

\* C10: in every saved state 0 <= successful_chunks <= total_chunks.
C10_ChunkBounds ==
  /\ 0 <= stored.successful_chunks
  /\ stored.successful_chunks <= stored.total_chunks

\* C11: for every user, the stored document is returned by findByUser(user)
\* if and only if hasAccess(user) is true on it.
C11_ListingAgreesWithAccess ==
  \A u \in Users : findByUser(stored, u) <=> hasAccess(stored, u)

====
